---------------------------- MODULE Spec2Model ----------------------------
(***************************************************************************)
(* Model of silx.io.specfileh5: the read-only adapter that exposes a       *)
(* SpecFile (scans with headers, data columns and MCA spectra) as a tree   *)
(* of HDF5-like groups, datasets and links addressed by POSIX paths.       *)
(*                                                                         *)
(* Paths are strings and are matched character by character, as the        *)
(* regular expressions of the module match them.  A dataset's payload is   *)
(* a record naming what the backing store returned (a header line, a data  *)
(* column, the list of flat indices of the MCA spectra gathered).          *)
(***************************************************************************)
EXTENDS Integers, Sequences, FiniteSets, TLC

VARIABLES file, cur, op, stack, calls, tables

vars == <<file, cur, op, stack, calls, tables>>

(***************************************************************************)
(* Strings                                                                 *)
(***************************************************************************)
Digits == {"0", "1", "2", "3", "4", "5", "6", "7", "8", "9"}

\* s[i-1:j] of Python: the characters i..j of s (1-based), cut at its end
Slice(s, i, j) ==
    IF i > j \/ i > Len(s) THEN ""
    ELSE SubSeq(s, i, IF j > Len(s) THEN Len(s) ELSE j)

\* str.startswith
StartsWith(s, p) == Len(s) >= Len(p) /\ Slice(s, 1, Len(p)) = p

\* str.endswith
EndsWith(s, p) == Len(s) >= Len(p) /\ Slice(s, Len(s) - Len(p) + 1, Len(s)) = p

\* s[n:]
Drop(s, n) == Slice(s, n + 1, Len(s))

\* the character of s at position i (1-based), "" past the end
Char(s, i) == IF i >= 1 /\ i <= Len(s) THEN Slice(s, i, i) ELSE ""

RECURSIVE DigitRun(_)
\* length of the longest prefix of s made of digits: what [0-9]+ consumes
DigitRun(s) ==
    IF Len(s) > 0 /\ Char(s, 1) \in Digits THEN 1 + DigitRun(Drop(s, 1)) ELSE 0

RECURSIVE HasSlash(_)
\* whether s holds a "/": [^/]+ matches s iff s is not empty and holds none
HasSlash(s) ==
    IF Len(s) = 0 THEN FALSE
    ELSE IF Char(s, 1) = "/" THEN TRUE ELSE HasSlash(Drop(s, 1))

\* ([^/]+)$
IsSegment(s) == Len(s) > 0 /\ ~HasSlash(s)

RECURSIVE rstrip_slash(_)
\* str.rstrip("/")
rstrip_slash(s) ==
    IF Len(s) > 0 /\ Char(s, Len(s)) = "/"
    THEN rstrip_slash(Slice(s, 1, Len(s) - 1)) ELSE s

DigitVal(c) ==
    CASE c = "0" -> 0 [] c = "1" -> 1 [] c = "2" -> 2 [] c = "3" -> 3
      [] c = "4" -> 4 [] c = "5" -> 5 [] c = "6" -> 6 [] c = "7" -> 7
      [] c = "8" -> 8 [] c = "9" -> 9

RECURSIVE StrToInt(_)
\* int(s) for a non-empty string of digits
StrToInt(s) ==
    IF Len(s) = 0 THEN 0
    ELSE 10 * StrToInt(Slice(s, 1, Len(s) - 1)) + DigitVal(Char(s, Len(s)))

DigitChar(d) ==
    CASE d = 0 -> "0" [] d = 1 -> "1" [] d = 2 -> "2" [] d = 3 -> "3"
      [] d = 4 -> "4" [] d = 5 -> "5" [] d = 6 -> "6" [] d = 7 -> "7"
      [] d = 8 -> "8" [] d = 9 -> "9"

RECURSIVE IntToStr(_)
\* "%d" % n for n >= 0
IntToStr(n) ==
    IF n < 10 THEN DigitChar(n) ELSE IntToStr(n \div 10) \o DigitChar(n % 10)

\* Python's None
None == "None"

(***************************************************************************)
(* Path grammar.  Every pattern but root_pattern starts with the scan       *)
(* prefix /[0-9]+\.[0-9]+ and ends with $: a pattern matches name when      *)
(* name has the prefix and what follows it, AfterScan(name), is what the    *)
(* rest of the pattern describes.                                          *)
(***************************************************************************)
\* what no remainder of a path that a pattern accepts can be
NoMatch == "<no match>"

\* a + b + 2 characters matched once the digits after the "." are counted
ScanPrefixMinor(a, b) == IF b > 0 THEN a + b + 2 ELSE 0

\* the "." and the digits after the a digits of the scan number
ScanPrefixMajor(name, a) ==
    IF a > 0 /\ Char(name, a + 2) = "."
    THEN ScanPrefixMinor(a, DigitRun(Drop(name, a + 2))) ELSE 0

\* number of characters /[0-9]+\.[0-9]+ matches at the start of name, 0 if none
ScanPrefixLen(name) ==
    IF Char(name, 1) = "/" THEN ScanPrefixMajor(name, DigitRun(Drop(name, 1)))
    ELSE 0

DropPrefix(name, n) == IF n > 0 THEN Drop(name, n) ELSE NoMatch

\* what follows the scan prefix of name, NoMatch when name has none
AfterScan(name) == DropPrefix(name, ScanPrefixLen(name))

DropDigits(t, d) == IF d > 0 THEN Drop(t, d) ELSE NoMatch

\* rest matched against <base>/mca_[0-9]+ : what follows the digits, or NoMatch
McaTail(rest, base) ==
    IF StartsWith(rest, base \o "/mca_")
    THEN DropDigits(Drop(rest, Len(base) + 5), DigitRun(Drop(rest, Len(base) + 5)))
    ELSE NoMatch

LeadingDigits(t) == Slice(t, 1, DigitRun(t))

\* the digits of <base>/mca_([0-9]+) in rest, once McaTail matched
McaDigits(rest, base) == LeadingDigits(Drop(rest, Len(base) + 5))

\* <prefix>([^/]+)$ : the segment, or NoMatch
SegmentAfter(rest, prefix) ==
    IF StartsWith(rest, prefix) /\ IsSegment(Drop(rest, Len(prefix)))
    THEN Drop(rest, Len(prefix)) ELSE NoMatch

root_pattern(name) == name = "/"

scan_pattern(name) == AfterScan(name) \in {"", "/"}

instrument_pattern(name) == AfterScan(name) \in {"/instrument", "/instrument/"}

positioners_group_pattern(name) ==
    AfterScan(name) \in {"/instrument/positioners", "/instrument/positioners/"}

measurement_group_pattern(name) ==
    AfterScan(name) \in {"/measurement", "/measurement/"}

measurement_mca_group_pattern(name) ==
    McaTail(AfterScan(name), "/measurement") \in {"", "/"}

instrument_mca_group_pattern(name) ==
    McaTail(AfterScan(name), "/instrument") \in {"", "/"}

measurement_mca_info_pattern(name) ==
    McaTail(AfterScan(name), "/measurement") \in {"/info", "/info/"}

title_pattern(name) == AfterScan(name) = "/title"

start_time_pattern(name) == AfterScan(name) = "/start_time"

positioners_data_pattern(name) ==
    SegmentAfter(AfterScan(name), "/instrument/positioners/") # NoMatch

measurement_data_pattern(name) ==
    SegmentAfter(AfterScan(name), "/measurement/") # NoMatch

instrument_mca_data_pattern(name) ==
    McaTail(AfterScan(name), "/instrument") = "/data"

instrument_mca_calib_pattern(name) ==
    McaTail(AfterScan(name), "/instrument") = "/calibration"

instrument_mca_chann_pattern(name) ==
    McaTail(AfterScan(name), "/instrument") = "/channels"

instrument_mca_preset_t_pattern(name) ==
    McaTail(AfterScan(name), "/instrument") = "/preset_time"

instrument_mca_elapsed_t_pattern(name) ==
    McaTail(AfterScan(name), "/instrument") = "/elapsed_time"

instrument_mca_live_t_pattern(name) ==
    McaTail(AfterScan(name), "/instrument") = "/live_time"

measurement_mca_data_pattern(name) ==
    McaTail(AfterScan(name), "/measurement") = "/data"

measurement_mca_info_dataset_pattern(name) ==
    SegmentAfter(McaTail(AfterScan(name), "/measurement"), "/info/") # NoMatch

is_group(name) ==
    \/ root_pattern(name)
    \/ scan_pattern(name)
    \/ instrument_pattern(name)
    \/ positioners_group_pattern(name)
    \/ measurement_group_pattern(name)
    \/ measurement_mca_group_pattern(name)
    \/ instrument_mca_group_pattern(name)

\* _bulk_match(name, list_of_data_patterns)
DataPatterns(name) ==
    \/ title_pattern(name)
    \/ start_time_pattern(name)
    \/ positioners_data_pattern(name)
    \/ measurement_data_pattern(name)
    \/ instrument_mca_data_pattern(name)
    \/ instrument_mca_calib_pattern(name)
    \/ instrument_mca_chann_pattern(name)
    \/ instrument_mca_preset_t_pattern(name)
    \/ instrument_mca_elapsed_t_pattern(name)
    \/ instrument_mca_live_t_pattern(name)

\* the match of the data patterns alone, whatever else the name matches
is_datasetByPatterns(name) == DataPatterns(name)

is_dataset(name) ==
    IF measurement_mca_group_pattern(name) THEN FALSE ELSE DataPatterns(name)

is_link_to_group(name) == measurement_mca_info_pattern(name)

is_link_to_dataset(name) ==
    \/ measurement_mca_data_pattern(name)
    \/ measurement_mca_info_dataset_pattern(name)

(***************************************************************************)
(* Name decomposition                                                      *)
(***************************************************************************)
ScanKey(item_name, n) == IF n > 0 THEN Slice(item_name, 2, n) ELSE None

\* re.match(r"/([0-9]+\.[0-9]+)", item_name): group(1), or None
get_scan_key_in_name(item_name) == ScanKey(item_name, ScanPrefixLen(item_name))

RECURSIVE LastMcaAt(_, _)
\* the last position p <= from, p >= 2, where s holds "/mca_" followed by a
\* digit (the greedy .* of /.*/mca_([0-9]+) takes the last one), 0 if none
LastMcaAt(s, from) ==
    IF from < 2 THEN 0
    ELSE IF Slice(s, from, from + 4) = "/mca_" /\ Char(s, from + 5) \in Digits
         THEN from
         ELSE LastMcaAt(s, from - 1)

\* None of an index
NoIndex == -1

McaIndexAt(item_name, p) ==
    IF p = 0 THEN NoIndex ELSE StrToInt(LeadingDigits(Drop(item_name, p + 4)))

\* re.match(r"/.*/mca_([0-9]+)[^0-9]*", item_name): int(group(1)), or None
get_mca_index_in_name(item_name) ==
    IF Char(item_name, 1) = "/"
    THEN McaIndexAt(item_name, LastMcaAt(item_name, Len(item_name) - 5))
    ELSE NoIndex

NoneIfNoMatch(s) == IF s = NoMatch THEN None ELSE s

get_motor_in_name(item_name) ==
    NoneIfNoMatch(SegmentAfter(AfterScan(item_name), "/instrument/positioners/"))

get_data_column_label_in_name(item_name) ==
    IF measurement_mca_group_pattern(item_name) THEN None
    ELSE NoneIfNoMatch(SegmentAfter(AfterScan(item_name), "/measurement/"))

(***************************************************************************)
(* Attributes                                                              *)
(***************************************************************************)
\* an attributes dictionary: the set of its (key, value) pairs
AttrsDict(map) == [none |-> FALSE, map |-> map]

\* None where an attributes dictionary is expected
NoAttrs == [none |-> TRUE, map |-> {}]

\* _get_attrs_dict(name): the attributes of the first pattern of pattern_attrs
\* that matches name; None when the loop ends without a match
get_attrs_dict(name) ==
    IF root_pattern(name) THEN AttrsDict({<<"NX_class", "NXroot">>})
    ELSE IF scan_pattern(name) THEN AttrsDict({<<"NX_class", "NXentry">>})
    ELSE IF title_pattern(name) THEN AttrsDict({})
    ELSE IF start_time_pattern(name) THEN AttrsDict({})
    ELSE IF instrument_pattern(name) THEN AttrsDict({<<"NX_class", "NXinstrument">>})
    ELSE IF positioners_group_pattern(name)
    THEN AttrsDict({<<"NX_class", "NXcollection">>})
    ELSE IF positioners_data_pattern(name) THEN AttrsDict({})
    ELSE IF instrument_mca_group_pattern(name)
    THEN AttrsDict({<<"NX_class", "NXdetector">>})
    ELSE IF instrument_mca_data_pattern(name)
    THEN AttrsDict({<<"interpretation", "spectrum">>})
    ELSE IF instrument_mca_calib_pattern(name) THEN AttrsDict({})
    ELSE IF instrument_mca_chann_pattern(name) THEN AttrsDict({})
    ELSE IF measurement_group_pattern(name)
    THEN AttrsDict({<<"NX_class", "NXcollection">>})
    ELSE IF measurement_data_pattern(name) THEN AttrsDict({})
    ELSE IF measurement_mca_group_pattern(name) THEN AttrsDict({})
    ELSE IF measurement_mca_data_pattern(name)
    THEN AttrsDict({<<"interpretation", "spectrum">>})
    ELSE IF measurement_mca_info_pattern(name)
    THEN AttrsDict({<<"NX_class", "NXdetector">>})
    ELSE NoAttrs

(***************************************************************************)
(* Backing store (SpecFile): file.keys is the list of scan keys in file    *)
(* order, file.scan[k] the scan of key k                                   *)
(***************************************************************************)
SeqToSet(q) == {q[i] : i \in 1..Len(q)}

\* scan_key in sf
ScanInFile(sf, scan_key) == scan_key \in SeqToSet(sf.keys)

\* results of the operations: an object (group, dataset, bool) or a raised error
Obj(cls, name, value) ==
    [cls |-> cls, name |-> name, value |-> value,
     attrs |-> [none |-> TRUE, map |-> {}]]

\* payload of a dataset: what it is (t), its text (s), its rows (flat MCA indices)
Payload(t, s, rows) == [t |-> t, s |-> s, rows |-> rows]

NoPayload == Payload(None, "", <<>>)

Raise(err, msg) == Obj("Error", err, Payload("raise", msg, <<>>))

IsError(o) == o.cls = "Error"

\* scan.data_column_by_name(label): the column, one value per data line
data_column_by_name(scan, label) ==
    IF label \in SeqToSet(scan.labels)
    THEN Payload("data_column", label, <<>>)
    ELSE Payload("raise", "SfError", <<>>)

\* the position of a motor that the #P lines of the header do not give
Infinity == "inf"

\* scan.motor_position_by_name(name): the position in the header (or +inf)
motor_position_by_name(scan, name) ==
    IF name \in SeqToSet(scan.motor_names)
    THEN Payload("motor_position", IF scan.pline THEN name ELSE Infinity, <<>>)
    ELSE Payload("raise", "SfError", <<>>)

(***************************************************************************)
(* Header conversions                                                      *)
(***************************************************************************)
RECURSIVE lstrip(_, _)
\* str.lstrip(chars)
lstrip(s, chars) ==
    IF Len(s) > 0 /\ Char(s, 1) \in chars THEN lstrip(Drop(s, 1), chars) ELSE s

RECURSIVE WordLen(_)
\* length of the first word of u: up to the first space
WordLen(u) ==
    IF Len(u) = 0 \/ Char(u, 1) = " " THEN 0 ELSE 1 + WordLen(Drop(u, 1))

RECURSIVE split(_)
RECURSIVE SplitWords(_)
RECURSIVE SplitAt(_, _)
\* the first word of t, n characters long, then the words of what follows
SplitAt(t, n) == <<Slice(t, 1, n)>> \o split(Drop(t, n))

\* the words of t, which starts with none of the separators
SplitWords(t) == IF Len(t) = 0 THEN <<>> ELSE SplitAt(t, WordLen(t))

\* str.split(): the words of s, separated by runs of spaces
split(s) == SplitWords(lstrip(s, {" "}))

\* the words when there are three of them
ThreeWords(w) == IF Len(w) # 3 THEN <<>> ELSE w

\* _parse_ctime: the three words (preset_time, live_time, elapsed_time), or
\* <<>> when the line does not hold exactly three (ValueError)
parse_ctime(ctime_line) ==
    ThreeWords(split(lstrip(ctime_line, {"@", "C", "T", "I", "M", "E", " "})))


months == <<"Jan", "Feb", "Mar", "Apr", "Jun", "Jul",
            "Aug", "Sep", "Oct", "Nov", "Dec">>

days == <<"Mon", "Tue", "Wed", "Thu", "Fri", "Sat", "Sun">>

\* [a-b]\d at position i of s
TwoDigitsAt(s, i, firsts) == Char(s, i) \in firsts /\ Char(s, i + 1) \in Digits

\* hh:mm:ss at position i of s
TimeAt(s, i) ==
    /\ TwoDigitsAt(s, i, {"0", "1", "2"})
    /\ Char(s, i + 2) = ":"
    /\ TwoDigitsAt(s, i + 3, {"0", "1", "2", "3", "4", "5"})
    /\ Char(s, i + 5) = ":"
    /\ TwoDigitsAt(s, i + 6, {"0", "1", "2", "3", "4", "5"})

\* ([+-]\d\d:\d\d) at position i of s
TzAt(s, i) ==
    /\ Char(s, i) \in {"+", "-"}
    /\ TwoDigitsAt(s, i + 1, Digits)
    /\ Char(s, i + 3) = ":"
    /\ TwoDigitsAt(s, i + 4, Digits)

\* \d{4} at position i of s
YearAt(s, i) == \A k \in 0..3 : Char(s, i + k) \in Digits

\* '{0:02d}'.format(n)
Format02d(n) == IF n < 10 THEN "0" \o IntToStr(n) ELSE IntToStr(n)

\* list.index (0-based)
IndexOf(q, x) ==
    (CHOOSE i \in 1..Len(q) : q[i] = x /\ \A j \in 1..(i - 1) : q[j] # x) - 1

\* '{days} {months} {day_nb} {hh}:{mm}:{ss}{tz} {year}': length of tz matched
\* (0 or 6), or -1 when the date does not match
MatchNamedMonth(date) ==
    IF /\ Slice(date, 1, 3) \in SeqToSet(days)
       /\ Char(date, 4) = " "
       /\ Slice(date, 5, 7) \in SeqToSet(months)
       /\ Char(date, 8) = " "
       /\ TwoDigitsAt(date, 9, {"0", "1", "2", "3"})
       /\ Char(date, 11) = " "
       /\ TimeAt(date, 12)
    THEN IF TzAt(date, 20) /\ Char(date, 26) = " " /\ YearAt(date, 27) THEN 6
         ELSE IF Char(date, 20) = " " /\ YearAt(date, 21) THEN 0 ELSE -1
    ELSE -1

\* '{days} {year}/{month_nb}/{day_nb} {hh}:{mm}:{ss}{tz}'
MatchNumberedMonth(date) ==
    IF /\ Slice(date, 1, 3) \in SeqToSet(days)
       /\ Char(date, 4) = " "
       /\ YearAt(date, 5)
       /\ Char(date, 9) = "/"
       /\ TwoDigitsAt(date, 10, {"0", "1"})
       /\ Char(date, 12) = "/"
       /\ TwoDigitsAt(date, 13, {"0", "1", "2", "3"})
       /\ Char(date, 15) = " "
       /\ TimeAt(date, 16)
    THEN IF TzAt(date, 24) THEN 6 ELSE 0
    ELSE -1

\* the date of the first layout, with a time zone of a characters
NamedMonthDate(date, a) ==
    Slice(date, 21 + a, 24 + a) \o "-"
    \o Format02d(IndexOf(months, Slice(date, 5, 7)) + 1) \o "-"
    \o Slice(date, 9, 10) \o "T" \o Slice(date, 12, 19)
    \o Slice(date, 20, 19 + a)

\* the date of the second layout, with a time zone of b characters
NumberedMonthDate(date, b) ==
    IF b >= 0
    THEN Slice(date, 5, 8) \o "-" \o Slice(date, 10, 11) \o "-"
         \o Slice(date, 13, 14) \o "T" \o Slice(date, 16, 23)
         \o Slice(date, 24, 23 + b)
    ELSE None

\* the first layout that matches is the one converted
FirstLayout(date, a) ==
    IF a >= 0 THEN NamedMonthDate(date, a)
    ELSE NumberedMonthDate(date, MatchNumberedMonth(date))

\* spec_date_to_iso8601(date, zone=None): the ISO 8601 date, or None when
\* the date matches neither layout (ValueError)
spec_date_to_iso8601(date) == FirstLayout(date, MatchNamedMonth(date))

(***************************************************************************)
(* MCA de-multiplexing                                                     *)
(***************************************************************************)
RECURSIVE range(_, _, _)
\* list(range(start, stop, step)) for step > 0
range(start, stop, step) ==
    IF start >= stop THEN <<>>
    ELSE <<start>> \o range(start + step, stop, step)

\* the assert of the MCA layout: None when it passes, else the error raised
\* (x % 0 raises ZeroDivisionError before the assert compares)
LayoutCheck(scan) ==
    IF scan.nlines = 0 THEN "ZeroDivisionError"
    ELSE IF scan.nspectra % scan.nlines # 0 THEN "AssertionError"
    ELSE None

\* number_of_MCA_spectra // number_of_data_lines, once the assert passed
NumberOfAnalysers(scan) == scan.nspectra \div scan.nlines

\* a loop that takes the spectra of an analyser as one contiguous block
GatherContiguous(scan, analyser_index, number_of_analysers) ==
    Payload("mca", "",
            [r \in 1..scan.nlines |-> analyser_index * scan.nlines + r - 1])

\* the loop of _demultiplex_mca over range(analyser_index, spectra, analysers)
Gather(scan, analyser_index, number_of_analysers) ==
    IF number_of_analysers = 0
    THEN Payload("raise", "ValueError", <<>>)       \* range() arg 3 is zero
    ELSE Payload("mca", "", range(analyser_index, scan.nspectra, number_of_analysers))

\* _demultiplex_mca after its assert, which raised err or passed (None)
Demultiplex(scan, analyser_index, err) ==
    IF err # None THEN Payload("raise", err, <<>>)
    ELSE Gather(scan, analyser_index, NumberOfAnalysers(scan))

\* _demultiplex_mca(scan, analyser_index): the flat indices of the spectra
\* gathered, row by row, as a payload (or the error raised)
demultiplex_mca(scan, analyser_index) ==
    Demultiplex(scan, analyser_index, LayoutCheck(scan))

(***************************************************************************)
(* Dataset materializers                                                   *)
(***************************************************************************)
\* SpecFileH5Dataset(array_like, name), or the error the payload stands for
Dataset(cls, array_like, name) ==
    IF array_like.t = "raise" THEN Raise(array_like.s, name)
    ELSE IF array_like.t = None
         THEN Raise("KeyError", "does not match any known dataset")
         ELSE [Obj(cls, name, array_like) EXCEPT !.attrs = get_attrs_dict(name)]

\* the timing value the instrument patterns pick among the parsed words t
PickTime(name, t) ==
    IF t = <<>> THEN Payload("raise", "ValueError", <<>>)
    ELSE IF instrument_mca_preset_t_pattern(name) THEN Payload("float", t[1], <<>>)
    ELSE IF instrument_mca_live_t_pattern(name) THEN Payload("float", t[2], <<>>)
    ELSE IF instrument_mca_elapsed_t_pattern(name) THEN Payload("float", t[3], <<>>)
    ELSE NoPayload

\* the branch '"CTIME" in scan.mca_header' of both builders
CtimeValue(name, ctime_line) == PickTime(name, parse_ctime(ctime_line))

\* the converted date as an array_like
DatePayload(iso) ==
    IF iso = None THEN Payload("raise", "ValueError", <<>>)
    ELSE Payload("date", iso, <<>>)

\* spec_date_to_iso8601 of the #D line found, KeyError when there is none
StartTime(spec_date) ==
    IF spec_date = None THEN Payload("raise", "KeyError", <<>>)
    ELSE DatePayload(spec_date_to_iso8601(spec_date))

\* the position of a motor taken from the header whatever the columns are
MotorDataHeaderFirst(scan, motor_name) == motor_position_by_name(scan, motor_name)

\* the position of a motor: its data column when it is one
MotorData(scan, motor_name) ==
    IF motor_name \in SeqToSet(scan.labels)
    THEN data_column_by_name(scan, motor_name)
    ELSE motor_position_by_name(scan, motor_name)

\* the #D line of the file header whatever the scan header holds
SpecDateOfFile(sf, scan) == sf.fdate

\* scan.scan_header["D"], or scan.file_header["D"] when the scan has none
SpecDate(sf, scan) == IF scan.sdate # None THEN scan.sdate ELSE sf.fdate

\* the array_like of _dataset_builder
DatasetArrayLike(name, sf, scan) ==
    IF title_pattern(name) THEN Payload("S", "", <<>>)
    ELSE IF start_time_pattern(name)
    THEN StartTime(SpecDate(sf, scan))
    ELSE IF positioners_data_pattern(name)
    THEN MotorData(scan, SegmentAfter(AfterScan(name), "/instrument/positioners/"))
    ELSE IF measurement_data_pattern(name)
    THEN data_column_by_name(scan, SegmentAfter(AfterScan(name), "/measurement/"))
    ELSE IF instrument_mca_data_pattern(name)
    THEN demultiplex_mca(scan, StrToInt(McaDigits(AfterScan(name), "/instrument")))
    ELSE IF instrument_mca_calib_pattern(name) THEN Payload("calibration", "", <<>>)
    ELSE IF instrument_mca_chann_pattern(name) THEN Payload("channels", "", <<>>)
    ELSE IF scan.ctime # None THEN CtimeValue(name, scan.ctime)
    ELSE NoPayload

\* _dataset_builder once the scan key of the name is known
DatasetOfScan(name, sf, scan_key) ==
    IF ~ScanInFile(sf, scan_key) THEN Raise("KeyError", scan_key)
    ELSE Dataset("SpecFileH5Dataset",
                 DatasetArrayLike(name, sf, sf.scan[scan_key]), name)

\* _dataset_builder(name, specfileh5)
dataset_builder(name, sf) == DatasetOfScan(name, sf, get_scan_key_in_name(name))

\* the branches on mca_hdr_type = m.group(1) of _link_to_dataset_builder
InfoArrayLike(name, scan, mca_hdr_type) ==
    IF mca_hdr_type = NoMatch THEN Payload("raise", "AttributeError", <<>>)
    ELSE IF mca_hdr_type = "calibration" THEN Payload("calibration", "", <<>>)
    ELSE IF mca_hdr_type = "channels" THEN Payload("channels", "", <<>>)
    ELSE IF scan.ctime # None THEN CtimeValue(name, scan.ctime)
    ELSE NoPayload

\* a link builder that takes the spectra of the first analyser for every link
LinkArrayLikeFirst(name, scan) ==
    IF measurement_mca_data_pattern(name) THEN demultiplex_mca(scan, 0)
    ELSE InfoArrayLike(name, scan,
             SegmentAfter(McaTail(AfterScan(name), "/measurement"), "/info/"))

\* the array_like of _link_to_dataset_builder
LinkArrayLike(name, scan) ==
    IF measurement_mca_data_pattern(name)
    THEN demultiplex_mca(scan, StrToInt(McaDigits(AfterScan(name), "/measurement")))
    ELSE \* "elif measurement_mca_info_dataset_pattern:" a pattern object is true
         InfoArrayLike(name, scan,
             SegmentAfter(McaTail(AfterScan(name), "/measurement"), "/info/"))

\* _link_to_dataset_builder once the scan key of the name is known
LinkOfScan(name, sf, scan_key) ==
    IF ~ScanInFile(sf, scan_key) THEN Raise("KeyError", scan_key)
    ELSE Dataset("SpecFileH5LinkToDataset",
                 LinkArrayLike(name, sf.scan[scan_key]), name)

\* _link_to_dataset_builder(name, specfileh5)
link_to_dataset_builder(name, sf) ==
    LinkOfScan(name, sf, get_scan_key_in_name(name))

(***************************************************************************)
(* Groups                                                                  *)
(***************************************************************************)
\* the lists of the module as it defines them
StaticLists ==
    [scan_submembers |-> <<"title", "start_time", "instrument", "measurement">>,
     measurement_mca_submembers |-> <<"data", "info">>,
     instrument_mca_submembers |-> <<"data", "calibration", "channels">>]

\* the lists of the module as they are now
scan_submembers == tables.scan_submembers

instrument_submembers == <<"positioners">>

measurement_mca_submembers == tables.measurement_mca_submembers

instrument_mca_submembers == tables.instrument_mca_submembers

GroupClasses == {"SpecFileH5", "SpecFileH5Group", "SpecFileH5LinkToGroup"}

IsGroupObj(o) == o.cls \in GroupClasses

\* SpecFileH5Group.__init__(name, specfileh5), for the class cls
NewGroup(cls, name, sf) ==
    IF name # "/" /\ ~ScanInFile(sf, get_scan_key_in_name(name))
    THEN Raise("KeyError", name)
    ELSE [Obj(cls, name, NoPayload) EXCEPT !.attrs = get_attrs_dict(name)]

\* SpecFileH5(filename): the root group
Root == [Obj("SpecFileH5", "/", NoPayload) EXCEPT !.attrs = get_attrs_dict("/")]

\* the absolute path of a key given to a group: self.name.rstrip("/") + "/" + key
AbsoluteKey(g, key) ==
    IF StartsWith(key, "/") THEN key ELSE rstrip_slash(g.name) \o "/" \o key

\* what _mca_analyser_in_scan does after its assert, which raised err or passed
AnalyserInRange(scan, mca_analyser_index, err) ==
    IF err # None THEN err
    ELSE IF 0 <= mca_analyser_index /\ mca_analyser_index < NumberOfAnalysers(scan)
         THEN "True" ELSE "False"

\* _mca_analyser_in_scan: "True", "False" or the error raised
mca_analyser_in_scan(sf, scan_key, mca_analyser_index) ==
    IF ~ScanInFile(sf, scan_key) THEN "KeyError"
    ELSE AnalyserInRange(sf.scan[scan_key], mca_analyser_index,
                         LayoutCheck(sf.scan[scan_key]))

motor_in_scan(sf, scan_key, motor_name) ==
    motor_name \in SeqToSet(sf.scan[scan_key].motor_names)

column_label_in_scan(sf, scan_key, column_label) ==
    column_label \in SeqToSet(sf.scan[scan_key].labels)

Bool(b) == Obj("bool", IF b THEN "True" ELSE "False", NoPayload)

\* __contains__ from "nonexistent data column" on
ContainsColumn(key, sf, scan_key, column_label) ==
    IF column_label # None /\ ~column_label_in_scan(sf, scan_key, column_label)
    THEN Bool(FALSE)
    ELSE IF EndsWith(key, "preset_time") \/ EndsWith(key, "elapsed_time")
            \/ EndsWith(key, "live_time")
    THEN Bool(sf.scan[scan_key].ctime # None)
    ELSE Bool(TRUE)

\* __contains__ from "nonexistent motor name" on
ContainsMotor(key, sf, scan_key, motor_name) ==
    IF motor_name # None /\ ~motor_in_scan(sf, scan_key, motor_name)
    THEN Bool(FALSE)
    ELSE ContainsColumn(key, sf, scan_key, get_data_column_label_in_name(key))

\* __contains__ once _mca_analyser_in_scan answered in_scan
ContainsAnalyser(key, sf, scan_key, in_scan) ==
    IF in_scan \notin {"True", "False"} THEN Raise(in_scan, key)
    ELSE IF in_scan = "False" THEN Bool(FALSE)
    ELSE ContainsMotor(key, sf, scan_key, get_motor_in_name(key))

\* __contains__ from "nonexistent MCA analyser in scan" on
ContainsMca(key, sf, scan_key, mca_analyser_index) ==
    IF mca_analyser_index # NoIndex
    THEN ContainsAnalyser(key, sf, scan_key,
                          mca_analyser_in_scan(sf, scan_key, mca_analyser_index))
    ELSE ContainsMotor(key, sf, scan_key, get_motor_in_name(key))

\* __contains__ from "nonexistent scan in specfile" on
ContainsScan(key, sf, scan_key) ==
    IF ~ScanInFile(sf, scan_key) THEN Bool(FALSE)
    ELSE ContainsMca(key, sf, scan_key, get_mca_index_in_name(key))

\* __contains__ once key is an absolute path
ContainsPath(key, sf) ==
    IF ~is_group(key) /\ ~is_dataset(key)
       /\ ~is_link_to_group(key) /\ ~is_link_to_dataset(key)
    THEN Bool(FALSE)
    ELSE ContainsScan(key, sf, get_scan_key_in_name(key))

\* SpecFileH5Group.__contains__(key)
Contains(g, key, sf) ==
    IF StartsWith(key, "/") /\ ~StartsWith(key, g.name) THEN Bool(FALSE)
    ELSE ContainsPath(AbsoluteKey(g, key), sf)

\* __getitem__ once full_key is known
GetPath(full_key, sf) ==
    IF is_group(full_key) THEN NewGroup("SpecFileH5Group", full_key, sf)
    ELSE IF is_dataset(full_key) THEN dataset_builder(full_key, sf)
    ELSE IF is_link_to_group(full_key)
    THEN NewGroup("SpecFileH5LinkToGroup", full_key, sf)
    ELSE IF is_link_to_dataset(full_key) THEN link_to_dataset_builder(full_key, sf)
    ELSE Raise("KeyError", "unrecognized group or dataset")

\* SpecFileH5Group.__getitem__(key)
GetItem(g, key, sf) ==
    IF StartsWith(key, "/") /\ ~StartsWith(key, g.name)
    THEN Raise("KeyError", "is not a child of")
    ELSE GetPath(AbsoluteKey(g, key), sf)

\* ["mca_%d" % i for i in range(n)]
mca_list(n) == [i \in 1..n |-> "mca_" \o IntToStr(i - 1)]

\* the list a keys() call returns, or the error it raises
KeyList(err, keys) == [err |-> err, keys |-> keys]

\* keys() of the measurement and instrument groups, after the assert
McaKeys(name, scan, mcas) ==
    IF measurement_group_pattern(name) THEN KeyList(None, scan.labels \o mcas)
    ELSE IF instrument_pattern(name) THEN KeyList(None, instrument_submembers \o mcas)
    ELSE KeyList("TypeError", <<>>)               \* keys() returned None

\* keys() from the assert on, which raised err or passed
CheckedKeys(name, scan, err) ==
    IF err # None THEN KeyList(err, <<>>)
    ELSE McaKeys(name, scan, mca_list(NumberOfAnalysers(scan)))

\* keys() of an instrument/mca_i group: the times where the MCA header has CTIME
InstrumentMcaKeys(scan) ==
    IF scan.ctime # None
    THEN KeyList(None, instrument_mca_submembers
                       \o <<"preset_time", "elapsed_time", "live_time">>)
    ELSE KeyList(None, instrument_mca_submembers)

\* SpecFileH5Group.keys() of a group of the scan self._scan
GroupKeys(name, scan) ==
    IF scan_pattern(name) THEN KeyList(None, scan_submembers)
    ELSE IF positioners_group_pattern(name) THEN KeyList(None, scan.motor_names)
    ELSE IF measurement_mca_group_pattern(name)
    THEN KeyList(None, measurement_mca_submembers)
    ELSE IF instrument_mca_group_pattern(name) THEN InstrumentMcaKeys(scan)
    ELSE CheckedKeys(name, scan, LayoutCheck(scan))

\* SpecFileH5Group.keys(), SpecFileH5LinkToGroup.keys(), SpecFileH5.keys()
Keys(g, sf) ==
    IF g.cls = "SpecFileH5" THEN KeyList(None, sf.keys)
    ELSE IF g.cls = "SpecFileH5LinkToGroup"
    THEN IF measurement_mca_info_pattern(g.name)
         THEN KeyList(None, instrument_mca_submembers)
         ELSE KeyList("TypeError", <<>>)          \* keys() returned None
    ELSE IF g.name = "/" THEN KeyList(None, sf.keys)
    ELSE GroupKeys(g.name, sf.scan[get_scan_key_in_name(g.name)])

\* self.keys() == other.keys(), or the error the first keys() to raise raises
EqKeys(keys, other_keys) ==
    IF keys.err # None THEN Raise(keys.err, "keys")
    ELSE IF other_keys.err # None THEN Raise(other_keys.err, "keys")
    ELSE Bool(keys.keys = other_keys.keys)

\* SpecFileH5Group.__eq__(other), g a group of the file sf and other an object
\* of the file other_sf
Eq(g, sf, other, other_sf) ==
    IF ~IsGroupObj(other) THEN Bool(FALSE)
    ELSE IF g.name # other.name THEN Bool(FALSE)
    ELSE IF sf.filename # other_sf.filename THEN Bool(FALSE)
    ELSE EqKeys(Keys(g, sf), Keys(other, other_sf))

(***************************************************************************)
(* The files explored                                                      *)
(***************************************************************************)
MaxLines == 2

MaxSpectra == 4

\* headers of a scan: column labels (#L), motor names (#O), the @CTIME line
\* of the MCA header and the #D line of the scan header (None: no such line)
Header(labels, motor_names, ctime, sdate) ==
    [labels |-> labels, motor_names |-> motor_names, ctime |-> ctime,
     sdate |-> sdate, pline |-> TRUE]

\* the header h without its #P lines (the positions of the motors)
NoPLine(h) == [h EXCEPT !.pline = FALSE]

TimedHeader ==
    Header(<<"a", "m1">>, <<"m1", "m2">>, "@CTIME 1 2 3",
           "Thu Feb 11 09:54:35 2016")

PlainHeader == Header(<<"a">>, <<"m1">>, None, None)

McaLabelHeader == Header(<<"mca_0">>, <<"m1">>, None, "Sat 2015/03/14 03:53:50")

\* a column that is a ratio of two counters
RatioLabelHeader == Header(<<"a/b">>, <<"m1">>, None, None)

\* a #D line of neither layout
BadDateHeader == Header(<<"a">>, <<"m1">>, None, "11/02/2016 09:54")

\* a #@CTIME line of two numbers
BadCtimeHeader ==
    Header(<<"a">>, <<"m1">>, "@CTIME 1 2", "Thu Feb 11 09:54:35 2016")

\* a column and a motor whose names begin like the name of an analyser
McaLikeHeader == Header(<<"mca_5x">>, <<"mca_1x">>, None, None)

\* a column and a motor named like the times of an analyser, and no #@CTIME
TimeNameHeader == Header(<<"live_time">>, <<"preset_time">>, None, None)

Scan(nlines, nspectra, h) ==
    [nlines |-> nlines, nspectra |-> nspectra, labels |-> h.labels,
     motor_names |-> h.motor_names, ctime |-> h.ctime, sdate |-> h.sdate,
     pline |-> h.pline]

\* every layout of data lines and spectra under one header, and the other
\* headers over one and two analysers
Scans ==
    {Scan(l, n, TimedHeader) : l \in 0..MaxLines, n \in 0..MaxSpectra}
    \cup {Scan(1, n, h) : n \in 1..2,
                           h \in {PlainHeader, McaLabelHeader, RatioLabelHeader,
                                  NoPLine(TimedHeader)}}
    \cup {Scan(1, 1, h) : h \in {BadDateHeader, BadCtimeHeader, McaLikeHeader,
                                  TimeNameHeader}}

FileDate == "Thu Feb 11 09:54:35 2016"

FileName == "t.dat"

File(keys, scan) ==
    [keys |-> keys, scan |-> scan, fdate |-> FileDate, filename |-> FileName]

\* a file of the same lines under another name
Copy(sf) == [sf EXCEPT !.filename = "u.dat"]

\* a file of one scan (1.1), or of two (1.1 and 1.10)
Files ==
    {File(<<"1.1">>, [k \in {"1.1"} |-> sc]) : sc \in Scans}
    \cup
    {File(<<"1.1", "1.10">>,
          [k \in {"1.1", "1.10"} |->
              IF k = "1.1" THEN Scan(1, 1, TimedHeader) ELSE Scan(1, 1, h)])
       : h \in {PlainHeader}}

\* keys a caller tries besides the ones keys() lists
ExtraKeys ==
    {"spam", "mca_7", "mca_0/info", "preset_time", "m9",
     "instrument/mca_0/data", "measurement/mca_0/data",
     "measurement/mca_0/info/data", "measurement/mca_0/info/preset_time",
     "/1.1/", "/1.10/title", "/5.1", "/1.1/instrument/mca_0/preset_time"}

CandidateKeys(g, sf) == SeqToSet(Keys(g, sf).keys) \cup ExtraKeys

\* the callback of a visit: fn(name) returns name for the target, else None
fn(target, name) == IF name = target THEN name ELSE None

StopTargets == {None, "/1.1", "/1.1/title", "/1.1/measurement/mca_0/info"}

(***************************************************************************)
(* The caller: it holds a group (cur), asks it for members, keys and       *)
(* membership, steps into the groups it gets, and visits                   *)
(***************************************************************************)
Idle == Obj("idle", "", NoPayload)

Op(type, g, key, res, keys) ==
    [type |-> type, group |-> g, key |-> key, res |-> res, keys |-> keys]

Visiting == stack # <<>>

NoOp == Op("none", Root, "", Idle, KeyList(None, <<>>))

\* the caller is not in a call and holds no result of one
Ready == ~Visiting /\ op = NoOp

Init ==
    /\ file \in Files
    /\ cur = Root
    /\ op = NoOp
    /\ stack = <<>>
    /\ calls = <<>>
    /\ tables = StaticLists

\* group[key]
DoGet(key) ==
    /\ Ready
    /\ op' = Op("get", cur, key, GetItem(cur, key, file), KeyList(None, <<>>))
    /\ UNCHANGED <<tables, file, cur, stack, calls>>

\* key in group
DoContains(key) ==
    /\ Ready
    /\ op' = Op("contains", cur, key, Contains(cur, key, file), KeyList(None, <<>>))
    /\ UNCHANGED <<tables, file, cur, stack, calls>>

\* group.keys()
DoKeys ==
    /\ Ready
    /\ op' = Op("keys", cur, "", Idle, Keys(cur, file))
    /\ UNCHANGED <<tables, file, cur, stack, calls>>

\* the list of the module that keys() of the group named name returns as it
\* is, None when keys() builds a list or has it from the SpecFile
ListOfGroup(name, scan) ==
    IF scan_pattern(name) THEN "scan_submembers"
    ELSE IF measurement_mca_group_pattern(name) THEN "measurement_mca_submembers"
    ELSE IF instrument_mca_group_pattern(name) /\ scan.ctime = None
    THEN "instrument_mca_submembers"
    ELSE None

\* the list of the module that g.keys() returns as it is, or None
ListReturned(g, sf) ==
    IF g.cls = "SpecFileH5" \/ g.name = "/" THEN None
    ELSE IF g.cls = "SpecFileH5LinkToGroup" THEN "instrument_mca_submembers"
    ELSE ListOfGroup(g.name, sf.scan[get_scan_key_in_name(g.name)])

\* the lists once the list called list has the elements of keys
Rebound(list, keys) ==
    IF list = None THEN tables ELSE [tables EXCEPT ![list] = keys]

\* s without its last element
Front(s) == SubSeq(s, 1, Len(s) - 1)

\* the caller removes the last name of the list that keys() returned to it
\* (del names[-1]), the lists of the module being as the module defines them
ModifyKeys ==
    /\ ~Visiting
    /\ op.type = "keys"
    /\ op.keys.err = None
    /\ op.keys.keys # <<>>
    /\ tables = StaticLists
    /\ op' = [op EXCEPT !.type = "modified", !.keys.keys = Front(op.keys.keys)]
    /\ tables' = Rebound(ListReturned(op.group, file), Front(op.keys.keys))
    /\ UNCHANGED <<file, cur, stack, calls>>

\* the caller goes on with the group it just got
Descend ==
    /\ ~Visiting
    /\ op.type = "get"
    /\ IsGroupObj(op.res)
    /\ cur' = op.res
    /\ op' = NoOp
    /\ UNCHANGED <<tables, file, stack, calls>>

\* the comparison of the group g with the object other of the file other_sf
Compare(type, key, g, other, other_sf) ==
    /\ ~IsError(other)
    /\ op' = Op(type, g, key, Eq(g, file, other, other_sf), KeyList(None, <<>>))
    /\ UNCHANGED <<tables, file, cur, stack, calls>>

\* g == group[key], g the group that the last group[...] returned
DoEq(key) ==
    /\ ~Visiting
    /\ op.type = "get"
    /\ op.res.cls = "SpecFileH5Group" \/ op.res.cls = "SpecFileH5LinkToGroup"
    /\ Compare("eq", key, op.res, GetItem(cur, key, file), file)

\* g == other[key], other the group of the name of group in a second SpecFileH5,
\* opened on a copy of the file under another name
DoEqCopy(key) ==
    /\ ~Visiting
    /\ op.type = "get"
    /\ op.res.cls = "SpecFileH5Group" \/ op.res.cls = "SpecFileH5LinkToGroup"
    /\ Compare("eq_copy", key, op.res, GetItem(cur, key, Copy(file)), Copy(file))

\* the caller drops the result of its last call
Drop_result ==
    /\ ~Visiting
    /\ op # NoOp
    /\ op' = NoOp
    /\ calls' = <<>>
    /\ UNCHANGED <<tables, file, cur, stack>>

Frame(g, i) == [g |-> g, i |-> i]

\* whether visit / visititems hands the member to the callback
CallsFunc(type, member) ==
    IF type = "visit"
    THEN ~is_link_to_dataset(member.name) /\ ~is_link_to_group(member.name)
    ELSE ~is_link_to_dataset(member.name)

\* whether visit / visititems recurses into the member
Recurses(member) ==
    IsGroupObj(member) /\ member.cls # "SpecFileH5LinkToGroup"

\* group.visit(func) / group.visititems(func) is called
VisitStart(type, target) ==
    /\ Ready
    /\ op' = Op(type, cur, target, Obj("running", "", NoPayload), KeyList(None, <<>>))
    /\ stack' = <<Frame(cur, 1)>>
    /\ calls' = <<>>
    /\ UNCHANGED <<tables, file, cur>>

\* the innermost visit returns value: to its caller, which drops it and goes
\* on with its loop, or to the caller of the outermost visit
ReturnFrom(value) ==
    /\ stack' = Tail(stack)
    /\ op' = IF Tail(stack) = <<>>
             THEN [op EXCEPT !.res = Obj("return", value, NoPayload)]
             ELSE op

\* the stack once the loop of frame f went past member
Advance(f, member) ==
    IF Recurses(member)
    THEN <<Frame(member, 1), Frame(f.g, f.i + 1)>> \o Tail(stack)
    ELSE <<Frame(f.g, f.i + 1)>> \o Tail(stack)

\* the end of a turn of the loop: func returned ret (None when not called)
Turn(f, member, ret) ==
    IF ret # None THEN ReturnFrom(ret)
    ELSE /\ op' = op
         /\ stack' = Advance(f, member)

\* a turn of the loop of frame f on member = self[member_name]
VisitOne(f, member) ==
    /\ ~IsError(member)
    /\ IF CallsFunc(op.type, member)
       THEN /\ calls' = Append(calls, member.name)
            /\ Turn(f, member, fn(op.key, member.name))
       ELSE /\ calls' = calls
            /\ Turn(f, member, None)

\* the loop of frame f over kl = self.keys() takes a turn
VisitLoop(f, kl) ==
    /\ kl.err = None
    /\ f.i <= Len(kl.keys)
    /\ VisitOne(f, GetItem(f.g, kl.keys[f.i], file))

\* one turn of the loop of the innermost visit
VisitMember ==
    /\ Visiting
    /\ VisitLoop(Head(stack), Keys(Head(stack).g, file))
    /\ UNCHANGED <<tables, file, cur>>

\* the loop over kl of frame f is over
LoopOver(f, kl) == kl.err = None /\ f.i > Len(kl.keys)

\* the loop of the innermost visit is over: it returns None
VisitReturn ==
    /\ Visiting
    /\ LoopOver(Head(stack), Keys(Head(stack).g, file))
    /\ ReturnFrom(None)
    /\ UNCHANGED <<tables, file, cur, calls>>

\* member when it is an error, Idle otherwise
ErrorOf(member) == IF IsError(member) THEN member ELSE Idle

\* the error keys() or self[member_name] raises in the loop over kl of frame f,
\* Idle if none
LoopError(f, kl) ==
    IF kl.err # None THEN Raise(kl.err, f.g.name)
    ELSE IF f.i <= Len(kl.keys) THEN ErrorOf(GetItem(f.g, kl.keys[f.i], file))
    ELSE Idle

\* the error raised in the loop of the visit of frame f, Idle if none
VisitError(f) == LoopError(f, Keys(f.g, file))

\* the error err leaves every visit
RaiseFrom(err) ==
    /\ IsError(err)
    /\ op' = [op EXCEPT !.res = err]
    /\ stack' = <<>>

\* keys() or self[member_name] raises: the error leaves every visit
VisitRaise ==
    /\ Visiting
    /\ RaiseFrom(VisitError(Head(stack)))
    /\ UNCHANGED <<tables, file, cur, calls>>

Next ==
    \/ \E key \in CandidateKeys(cur, file) : DoGet(key)
    \/ \E key \in CandidateKeys(cur, file) : DoContains(key)
    \/ DoKeys
    \/ ModifyKeys
    \/ \E key \in CandidateKeys(cur, file) : DoEq(key)
    \/ \E key \in CandidateKeys(cur, file) : DoEqCopy(key)
    \/ Descend
    \/ Drop_result
    \/ \E type \in {"visit", "visititems"}, target \in StopTargets :
           VisitStart(type, target)
    \/ VisitMember
    \/ VisitReturn
    \/ VisitRaise

Spec == Init /\ [][Next]_vars

(***************************************************************************)
(* Properties                                                              *)
(***************************************************************************)
\* the path a key given to the group of the last call stands for
OpPath == AbsoluteKey(op.group, op.key)

\* the last call was given one of the keys that keys() of its group lists
KeyOfGroup == op.key \in SeqToSet(Keys(op.group, file).keys)

\* C1: for every group reached from the root and every key k that its keys()
\* returns, "k in group" is true and group[k] returns an object, not an error
C1_RoundTrip ==
    /\ (op.type = "get" /\ KeyOfGroup) => ~IsError(op.res)
    /\ (op.type = "contains" /\ KeyOfGroup) => op.res = Bool(TRUE)

\* a link, or a path below the link to a group
IsLinkPath(name) == is_link_to_group(name) \/ is_link_to_dataset(name)

InVisit == op.type \in {"visit", "visititems"}

\* C2: during visit and visititems the callback is never called for a link
\* nor for a path below a link, and no visit runs inside a link it met
C2_LinksIgnored ==
    InVisit =>
        /\ \A i \in 1..Len(calls) : ~IsLinkPath(calls[i])
        /\ \A j \in 1..(Len(stack) - 1) :
               stack[j].g.cls # "SpecFileH5LinkToGroup"

\* C3: once the callback returned a value other than None, it is not called
\* again, and that value is what the outermost visit returns
C3_EarlyExit ==
    InVisit =>
        \A i \in 1..Len(calls) :
            fn(op.key, calls[i]) # None =>
                /\ i = Len(calls)
                /\ op.res.cls = "return" => op.res.name = calls[i]

\* path is the path of the group named name or is below it, by whole segments
InSubtree(name, path) ==
    rstrip_slash(path) = rstrip_slash(name)
    \/ StartsWith(path, rstrip_slash(name) \o "/")

\* C4: group[key] with an absolute key that is neither the path of the group
\* nor below it raises KeyError
C4_KeyInScope ==
    (op.type = "get" /\ StartsWith(op.key, "/")
     /\ ~InSubtree(op.group.name, op.key))
        => IsError(op.res) /\ op.res.name = "KeyError"

\* the categories of the grammar that name falls in
Categories(name) ==
    {c \in {"group", "dataset", "link to group", "link to dataset"} :
        \/ c = "group" /\ is_group(name)
        \/ c = "dataset" /\ is_dataset(name)
        \/ c = "link to group" /\ is_link_to_group(name)
        \/ c = "link to dataset" /\ is_link_to_dataset(name)}

\* C5: every path made of the name of a group and one of its keys, at every
\* depth, falls in exactly one category of the grammar
C5_GrammarPartition ==
    (op.type \in {"get", "contains"} /\ KeyOfGroup)
        => Cardinality(Categories(OpPath)) = 1

\* /1.1/measurement/mca_0/info/* -> /1.1/instrument/mca_0/*
LinkTarget(name) ==
    "/" \o get_scan_key_in_name(name) \o "/instrument/mca_"
    \o McaDigits(AfterScan(name), "/measurement")

\* the group a link to a group stands for
TargetGroup(g) == NewGroup("SpecFileH5Group", LinkTarget(g.name), file)

OnLink == op.group.cls = "SpecFileH5LinkToGroup"

\* C6: the link measurement/mca_i/info returns the keys of instrument/mca_i,
\* and for each of them the content that instrument/mca_i returns
C6_LinkAsTarget ==
    /\ (op.type = "keys" /\ OnLink) => op.keys = Keys(TargetGroup(op.group), file)
    /\ (op.type = "get" /\ OnLink
        /\ op.key \in SeqToSet(Keys(TargetGroup(op.group), file).keys))
           => /\ ~IsError(op.res)
              /\ op.res.value = GetItem(TargetGroup(op.group), op.key, file).value

\* C7: group[key] raises KeyError, and returns nothing, whenever "key in
\* group" is false
C7_AbsentKeyRaises ==
    (op.type = "get" /\ Contains(op.group, op.key, file) = Bool(FALSE))
        => IsError(op.res) /\ op.res.name = "KeyError"

\* the scan a path is in
ScanOf(path) == file.scan[get_scan_key_in_name(path)]

\* the rows of analyser i among n: the flat indices i + r*n, r in 0..L-1
Strided(i, n, L) == [r \in 1..L |-> i + (r - 1) * n]

\* the last call materialized instrument/mca_i/data of a scan of L >= 1 data
\* lines and n*L spectra, n >= 1, for i < n
DemuxCase(L, n, i) ==
    /\ op.type = "get"
    /\ ~StartsWith(op.key, "/")
    /\ instrument_mca_data_pattern(OpPath)
    /\ ScanInFile(file, get_scan_key_in_name(OpPath))
    /\ ScanOf(OpPath).nlines = L
    /\ ScanOf(OpPath).nspectra = n * L
    /\ get_mca_index_in_name(OpPath) = i

\* C8: for a scan of L data lines and n*L spectra, instrument/mca_i/data of an
\* analyser i < n has L rows, and row r is the spectrum of flat index i + r*n
C8_Demultiplex ==
    \A L \in 1..MaxLines, n \in 1..MaxSpectra, i \in 0..MaxSpectra :
        (i < n /\ DemuxCase(L, n, i))
            => /\ op.res.cls = "SpecFileH5Dataset"
               /\ op.res.value.t = "mca"
               /\ Len(op.res.value.rows) = L
               /\ op.res.value.rows = Strided(i, n, L)

\* two analysers over two data lines: the second one holds spectra 1 and 3
C8_Witness ==
    /\ DemuxCase(2, 2, 1)
    /\ op.res.value.rows = <<1, 3>>

\* the number of spectra is not a multiple of the number of data lines
NotMultiple(scan) == \A n \in 0..scan.nspectra : scan.nspectra # n * scan.nlines

\* C9: when the spectra of a scan are not a multiple of its data lines,
\* materializing the MCA data of any analyser raises the layout error
\* (AssertionError) and returns no array
C9_LayoutError ==
    (/\ op.type = "get"
     /\ ~StartsWith(op.key, "/")
     /\ instrument_mca_data_pattern(OpPath) \/ measurement_mca_data_pattern(OpPath)
     /\ ScanInFile(file, get_scan_key_in_name(OpPath))
     /\ NotMultiple(ScanOf(OpPath)))
        => IsError(op.res) /\ op.res.name = "AssertionError"

\* the analysers of a scan: none when it has no data line
AnalyserCount(scan) ==
    IF scan.nlines = 0 THEN 0 ELSE scan.nspectra \div scan.nlines

\* path names nothing the file holds: no category, no such scan, analyser,
\* motor or column, or a timing dataset of a scan without CTIME
Absent(path) ==
    \/ Categories(path) = {}
    \/ ~ScanInFile(file, get_scan_key_in_name(path))
    \/ /\ get_mca_index_in_name(path) # NoIndex
       /\ get_mca_index_in_name(path) >= AnalyserCount(ScanOf(path))
    \/ /\ get_motor_in_name(path) # None
       /\ get_motor_in_name(path) \notin SeqToSet(ScanOf(path).motor_names)
    \/ /\ get_data_column_label_in_name(path) # None
       /\ get_data_column_label_in_name(path) \notin SeqToSet(ScanOf(path).labels)
    \/ /\ \/ instrument_mca_preset_t_pattern(path)
          \/ instrument_mca_elapsed_t_pattern(path)
          \/ instrument_mca_live_t_pattern(path)
       /\ ScanOf(path).ctime = None

\* C10: "key in group" is false when the path of key names nothing the file
\* holds, for a scan whose spectra are a whole number of spectra per data line
C10_AbsentNotContained ==
    (/\ op.type = "contains"
     /\ Absent(OpPath)
     /\ ScanInFile(file, get_scan_key_in_name(OpPath))
            => ~NotMultiple(ScanOf(OpPath)))
        => op.res = Bool(FALSE)

\* the paths of the members of a scan that are not links: what the file holds
TreeOfAnalyser(p, i, scan) ==
    {p \o "/measurement/mca_" \o IntToStr(i),
     p \o "/instrument/mca_" \o IntToStr(i),
     p \o "/instrument/mca_" \o IntToStr(i) \o "/data",
     p \o "/instrument/mca_" \o IntToStr(i) \o "/calibration",
     p \o "/instrument/mca_" \o IntToStr(i) \o "/channels"}
    \cup (IF scan.ctime = None THEN {}
          ELSE {p \o "/instrument/mca_" \o IntToStr(i) \o "/" \o t :
                  t \in {"preset_time", "elapsed_time", "live_time"}})

\* the non-link members of the scan of path p
TreeOfScan(p, scan) ==
    {p, p \o "/title", p \o "/start_time", p \o "/instrument",
     p \o "/instrument/positioners", p \o "/measurement"}
    \cup {p \o "/instrument/positioners/" \o m : m \in SeqToSet(scan.motor_names)}
    \cup {p \o "/measurement/" \o l : l \in SeqToSet(scan.labels)}
    \cup UNION {TreeOfAnalyser(p, i, scan) : i \in 0..(AnalyserCount(scan) - 1)}

\* the non-link members of the file
Tree == UNION {TreeOfScan("/" \o k, file.scan[k]) : k \in SeqToSet(file.keys)}

\* the non-link members below the group named name
MembersBelow(name) ==
    {p \in Tree : InSubtree(name, p) /\ p # rstrip_slash(name)}

\* no element of the sequence q occurs twice in it
NoDuplicates(q) == \A i, j \in 1..Len(q) : q[i] = q[j] => i = j

\* the visit of the last call is over: it returned or raised
VisitOver == InVisit /\ ~Visiting /\ op.res.cls # "running"

\* C11: when the callback always returns None, visit calls it exactly once for
\* every non-link member below the group: none is skipped, none comes twice
C11_VisitOnce ==
    (op.type = "visit" /\ op.key = None)
        => /\ NoDuplicates(calls)
           /\ VisitOver => SeqToSet(calls) = MembersBelow(op.group.name)

\* the last call asked a group for the position of the motor m of scan
PositionerCase(m, scan) ==
    /\ op.type = "get"
    /\ ~StartsWith(op.key, "/")
    /\ get_motor_in_name(OpPath) = m
    /\ ScanInFile(file, get_scan_key_in_name(OpPath))
    /\ ScanOf(OpPath) = scan
    /\ m \in SeqToSet(scan.motor_names)

\* what instrument/positioners/m holds: the data column of label m when there
\* is one, else the position of the header, +infinity when it gives none
PositionOf(m, scan) ==
    IF m \in SeqToSet(scan.labels) THEN Payload("data_column", m, <<>>)
    ELSE Payload("motor_position", IF scan.pline THEN m ELSE Infinity, <<>>)

\* C12: instrument/positioners/m returns the data column of m when m is a
\* column label too; otherwise the position of the header, which is +infinity
\* when the header does not give it
C12_PositionerPrecedence ==
    \A scan \in Scans : \A m \in SeqToSet(scan.motor_names) :
        PositionerCase(m, scan)
            => /\ op.res.cls = "SpecFileH5Dataset"
               /\ op.res.value = PositionOf(m, scan)

\* m1 is a motor and a column: its data column is returned
C12_Witness ==
    /\ PositionerCase("m1", ScanOf("/1.1"))
    /\ "m1" \in SeqToSet(ScanOf("/1.1").labels)
    /\ op.res.value = Payload("data_column", "m1", <<>>)

\* measurement/mca_i/data -> instrument/mca_i/data
DataTarget(path) ==
    "/" \o get_scan_key_in_name(path) \o "/instrument/mca_"
    \o McaDigits(AfterScan(path), "/measurement") \o "/data"

\* the last call asked a group for measurement/mca_i/data of an analyser i
\* that the scan has
LinkDataCase ==
    /\ op.type = "get"
    /\ ~StartsWith(op.key, "/")
    /\ measurement_mca_data_pattern(OpPath)
    /\ ScanInFile(file, get_scan_key_in_name(OpPath))
    /\ ~NotMultiple(ScanOf(OpPath))
    /\ get_mca_index_in_name(OpPath) < AnalyserCount(ScanOf(OpPath))

\* C13: for every analyser i of a scan, measurement/mca_i/data returns the
\* content that instrument/mca_i/data returns
C13_LinkEquivalence ==
    LinkDataCase
        => /\ ~IsError(op.res)
           /\ ~IsError(GetPath(DataTarget(OpPath), file))
           /\ op.res.value = GetPath(DataTarget(OpPath), file).value

\* the link to the data of the second analyser of two, over two data lines
C13_Witness ==
    /\ LinkDataCase
    /\ op.res.value.rows = <<1, 3>>

(***************************************************************************)
(* Conversion of dates: spec_date_to_iso8601 applied to the dates of both   *)
(* supported layouts                                                       *)
(***************************************************************************)
\* the twelve English month abbreviations, in calendar order
Calendar == <<"Jan", "Feb", "Mar", "Apr", "May", "Jun",
              "Jul", "Aug", "Sep", "Oct", "Nov", "Dec">>

\* DDD MMM dd hh:mm:ss YYYY and DDD YYYY/MM/dd hh:mm:ss, for every weekday
\* and every month
Dates ==
    {d \o " " \o mo \o " 11 09:54:35 2016" :
        d \in SeqToSet(days), mo \in SeqToSet(Calendar)}
    \cup {d \o " 2015/" \o Format02d(n) \o "/14 03:53:50" :
        d \in SeqToSet(days), n \in 1..Len(Calendar)}

\* what a call of spec_date_to_iso8601 gives its caller: the string returned,
\* or the ValueError raised
IsoResult(iso) ==
    IF iso = None THEN Raise("ValueError", "Date format not recognized")
    ELSE Obj("str", iso, NoPayload)

DateInit ==
    /\ file = File(<<"1.1">>, [k \in {"1.1"} |-> Scan(1, 1, PlainHeader)])
    /\ cur = Root
    /\ op \in {Op("date", Root, d, Idle, KeyList(None, <<>>)) : d \in Dates}
    /\ stack = <<>>
    /\ calls = <<>>
    /\ tables = StaticLists

\* spec_date_to_iso8601(date)
ConvertDate ==
    /\ op.type = "date"
    /\ op.res = Idle
    /\ op' = [op EXCEPT !.res = IsoResult(spec_date_to_iso8601(op.key))]
    /\ UNCHANGED <<tables, file, cur, stack, calls>>

DateNext == ConvertDate

DateSpec == DateInit /\ [][DateNext]_vars

\* YYYY-MM-ddThh:mm:ss of a date in the layout DDD MMM dd hh:mm:ss YYYY, MM the
\* calendar number of the month
NamedIso(date) ==
    Slice(date, 21, 24) \o "-"
    \o Format02d(IndexOf(Calendar, Slice(date, 5, 7)) + 1) \o "-"
    \o Slice(date, 9, 10) \o "T" \o Slice(date, 12, 19)

\* YYYY-MM-ddThh:mm:ss of a date in the layout DDD YYYY/MM/dd hh:mm:ss
NumberedIso(date) ==
    Slice(date, 5, 8) \o "-" \o Slice(date, 10, 11) \o "-"
    \o Slice(date, 13, 14) \o "T" \o Slice(date, 16, 23)

\* C14: a date of either layout, for every weekday and every one of the twelve
\* months, converts to YYYY-MM-ddThh:mm:ss with the calendar number of the month
C14_DateNormalization ==
    (op.type = "date" /\ op.res # Idle)
        => op.res = Obj("str",
                        IF Char(op.key, 9) = "/" THEN NumberedIso(op.key)
                        ELSE NamedIso(op.key),
                        NoPayload)

\* the last call returned a group or a dataset
Returned == op.type = "get" /\ ~IsError(op.res)

\* the attributes that the categories of a path have, where the path is of one
\* that has some
AttrsOf(name) ==
    IF root_pattern(name) THEN {<<"NX_class", "NXroot">>}
    ELSE IF scan_pattern(name) THEN {<<"NX_class", "NXentry">>}
    ELSE IF instrument_pattern(name) THEN {<<"NX_class", "NXinstrument">>}
    ELSE IF positioners_group_pattern(name) \/ measurement_group_pattern(name)
    THEN {<<"NX_class", "NXcollection">>}
    ELSE IF instrument_mca_group_pattern(name) THEN {<<"NX_class", "NXdetector">>}
    ELSE IF instrument_mca_data_pattern(name) \/ measurement_mca_data_pattern(name)
    THEN {<<"interpretation", "spectrum">>}
    ELSE {}

\* C15: the attributes of every group, dataset and link are a mapping, never
\* None: NX_class or interpretation for the categories that have one, and the
\* empty mapping for the others
C15_Attributes ==
    Returned
        => /\ ~op.res.attrs.none
           /\ ~is_link_to_group(op.res.name)
                  => op.res.attrs.map = AttrsOf(op.res.name)

\* keys() was called on a group of a scan
KeysOfGroup == op.type = "keys" /\ op.group.cls = "SpecFileH5Group"

\* the MCA header of the scan of the path has a CTIME line
HasCtime(name) == file.scan[get_scan_key_in_name(name)].ctime # None

\* C16: keys() of a scan group is title, start_time, instrument, measurement;
\* keys() of an instrument/mca_i group is data, calibration, channels, followed
\* by preset_time, elapsed_time, live_time exactly when the MCA header of the
\* scan has a CTIME line
C16_FixedKeys ==
    /\ (KeysOfGroup /\ scan_pattern(op.group.name))
           => op.keys = KeyList(None, <<"title", "start_time", "instrument",
                                        "measurement">>)
    /\ (KeysOfGroup /\ instrument_mca_group_pattern(op.group.name))
           => op.keys = KeyList(None,
                  <<"data", "calibration", "channels">>
                  \o (IF HasCtime(op.group.name)
                      THEN <<"preset_time", "elapsed_time", "live_time">>
                      ELSE <<>>))

\* mca_0 .. mca_(n-1)
McaNames(n) == [i \in 1..n |-> "mca_" \o IntToStr(i - 1)]

\* C17: keys() of a measurement group is the labels of the scan followed by one
\* mca_i for each analyser i in 0..n-1, n the spectra per data line; keys() of
\* an instrument group is positioners followed by the same mca_i
C17_AnalyserKeys ==
    (KeysOfGroup /\ ~NotMultiple(ScanOf(op.group.name)))
        => /\ measurement_group_pattern(op.group.name)
                  => op.keys = KeyList(None,
                         ScanOf(op.group.name).labels
                         \o McaNames(AnalyserCount(ScanOf(op.group.name))))
           /\ instrument_pattern(op.group.name)
                  => op.keys = KeyList(None,
                         <<"positioners">>
                         \o McaNames(AnalyserCount(ScanOf(op.group.name))))

(***************************************************************************)
(* Types of the data of a dataset: SpecFileH5Dataset(array_like, name)     *)
(* applied to data of every numpy kind                                     *)
(***************************************************************************)
MaxChars == 4

\* a numpy dtype: its kind (dtype.kind) and the bytes of one item
Dtype(kind, itemsize) == [kind |-> kind, itemsize |-> itemsize]

\* the dtypes of each kind: integers, unsigned, floats, complex, boolean,
\* object, void, byte strings and unicode of 1..MaxChars characters, timedelta
\* and datetime
Dtypes ==
    {Dtype(k, w) : k \in {"i", "u"}, w \in {1, 2, 4, 8}}
    \cup {Dtype("f", w) : w \in {2, 4, 8, 16}}
    \cup {Dtype("c", w) : w \in {8, 16, 32}}
    \cup {Dtype("b", 1), Dtype("O", 8), Dtype("m", 8), Dtype("M", 8)}
    \cup {Dtype(k, n) : k \in {"S", "V"}, n \in 1..MaxChars}
    \cup {Dtype("U", 4 * n) : n \in 1..MaxChars}

\* array_like: a text of the language (py = "str"), a numpy.ndarray, or a
\* sequence that numpy.array turns into an array of the dtype
ArrayLike(py, dtype) == [py |-> py, dtype |-> dtype]

ArrayLikes ==
    {ArrayLike(py, d) : py \in {"ndarray", "list"}, d \in Dtypes}
    \cup {ArrayLike("str", Dtype("U", 4 * n)) : n \in 1..MaxChars}

\* numpy.string_(text): the bytes of the text, one for each character
string_(dtype) == Dtype("S", dtype.itemsize \div 4)

\* the array of array_like: numpy.string_ of a text, numpy.array of a sequence
AsArray(array_like) ==
    IF array_like.py = "str" THEN string_(array_like.dtype) ELSE array_like.dtype

\* a dataset that keeps the width of numbers
NewDatasetSameWidth(array) ==
    IF array.kind \in {"S", "U"} THEN Obj("SpecFileH5Dataset", "", array)
    ELSE IF array.kind \in {"i", "u", "f"}
    THEN Obj("SpecFileH5Dataset", "", Dtype("f", array.itemsize))
    ELSE Raise("TypeError", "Unexpected data type " \o array.kind)

\* SpecFileH5Dataset.__new__ from data_kind on: the dtype of the dataset, or the
\* TypeError raised
NewDataset(array) ==
    IF array.kind = "S" THEN Obj("SpecFileH5Dataset", "", array)
    ELSE IF array.kind = "U" THEN Obj("SpecFileH5Dataset", "", array)
    ELSE IF array.kind \in {"i", "u", "f"}
    THEN Obj("SpecFileH5Dataset", "", Dtype("f", 4))
    ELSE Raise("TypeError", "Unexpected data type " \o array.kind)

DtypeInit ==
    /\ file = File(<<"1.1">>, [k \in {"1.1"} |-> Scan(1, 1, PlainHeader)])
    /\ cur = Root
    /\ op \in {Op("new", Root, a, Idle, KeyList(None, <<>>)) : a \in ArrayLikes}
    /\ stack = <<>>
    /\ calls = <<>>
    /\ tables = StaticLists

\* SpecFileH5Dataset(array_like, name)
Construct ==
    /\ op.type = "new"
    /\ op.res.cls = "idle"
    /\ op' = [op EXCEPT !.res = NewDataset(AsArray(op.key))]
    /\ UNCHANGED <<tables, file, cur, stack, calls>>

DtypeNext == Construct

DtypeSpec == DtypeInit /\ [][DtypeNext]_vars

\* SpecFileH5Dataset(array_like, name) returned or raised
Constructed == op.type = "new" /\ op.res.cls # "idle"

Canonical(path) == IF rstrip_slash(path) = "" THEN "/" ELSE rstrip_slash(path)

\* the two groups compared are of the same path
SamePath == Canonical(op.group.name) = Canonical(AbsoluteKey(cur, op.key))

\* C19: two groups that separate group[...] calls returned for the same path of
\* the same file compare equal, from either side; groups of different paths, or
\* of files of different names, compare unequal
C19_GroupEquality ==
    /\ (op.type = "eq" /\ SamePath) => op.res = Bool(TRUE)
    /\ (op.type = "eq" /\ ~SamePath) => op.res = Bool(FALSE)
    /\ op.type = "eq_copy" => op.res = Bool(FALSE)

\* C20: the name of every group that group[...] returns, after any sequence of
\* such calls, is an absolute path without a slash at its end, the root "/"
\* apart
C20_CanonicalName ==
    (op.type = "get" /\ IsGroupObj(op.res))
        => /\ StartsWith(op.res.name, "/")
           /\ op.res.name = Canonical(op.res.name)

\* the error that a malformed #D or #@CTIME line raises
HeaderError(o) == IsError(o) /\ o.name = "ValueError"

\* C21: a malformed header line (date, CTIME) raises for the caller that asks
\* for its dataset only: no visit or visititems whose callback raises nothing
\* ends with that error
C21_VisitSurvivesHeader ==
    (VisitOver /\ op.key = None) => ~HeaderError(op.res)

\* the KeyError of a builder that has no case for the name
UnknownDataset(o) ==
    IsError(o) /\ o = Raise("KeyError", "does not match any known dataset")

\* C22: for a path that the grammar classifies as dataset or link to a dataset
\* and that the group contains, group[...] never raises the KeyError "does not
\* match any known dataset"
C22_NoUnknownDataset ==
    (/\ op.type = "get"
     /\ is_dataset(OpPath) \/ is_link_to_dataset(OpPath)
     /\ Contains(op.group, op.key, file) = Bool(TRUE))
        => ~UnknownDataset(op.res)

\* the key of the last call is relative, or an absolute path that starts with
\* the name of the group
KeyInGroup == ~StartsWith(op.key, "/") \/ StartsWith(op.key, op.group.name)

\* the last call asked a group for a path /<scan>/measurement/mca_<i> of a scan
\* of the file
McaGroupCase ==
    /\ op.type = "get"
    /\ KeyInGroup
    /\ measurement_mca_group_pattern(OpPath)
    /\ ScanInFile(file, get_scan_key_in_name(OpPath))

\* C23: a path /<scan>/measurement/mca_<i> is a group and not a dataset, also
\* when a column of the scan has the label mca_<i>: group[...] returns a group
\* for it and the path has no column label
C23_GroupPrecedence ==
    McaGroupCase
        => /\ is_group(OpPath)
           /\ ~is_dataset(OpPath)
           /\ op.res.cls = "SpecFileH5Group"
           /\ get_data_column_label_in_name(OpPath) = None

\* a group was returned for measurement/mca_0 of a scan that has a column mca_0
C23_Witness ==
    /\ McaGroupCase
    /\ "mca_0" \in SeqToSet(ScanOf(OpPath).labels)
    /\ EndsWith(OpPath, "/measurement/mca_0")
    /\ op.res.cls = "SpecFileH5Group"

\* path has a segment equal to seg
HasSegment(path, seg) ==
    \E p \in 1..Len(path) :
        /\ Slice(path, p, p + Len(seg)) = "/" \o seg
        /\ Char(path, p + Len(seg) + 1) \in {"", "/"}

\* the indices i of the segments mca_<i> of path
SegmentIndices(path) == {i \in 0..9 : HasSegment(path, "mca_" \o IntToStr(i))}

\* the last call looked up a path of a scan
PathCase ==
    /\ op.type \in {"get", "contains"}
    /\ KeyInGroup
    /\ get_scan_key_in_name(OpPath) # None

\* C24: the index that _get_mca_index_in_name extracts from a path of a scan is
\* the i of a segment mca_<i> of the path, and it is None for a path without
\* such a segment, as for a motor or a column whose name begins with
\* mca_<digits>
C24_McaIndex ==
    PathCase
        => IF SegmentIndices(OpPath) = {}
           THEN get_mca_index_in_name(OpPath) = NoIndex
           ELSE get_mca_index_in_name(OpPath) \in SegmentIndices(OpPath)

\* the last call asked a group for the start_time of a scan of the file
StartTimeCase ==
    /\ op.type = "get"
    /\ KeyInGroup
    /\ start_time_pattern(OpPath)
    /\ ScanInFile(file, get_scan_key_in_name(OpPath))

\* the #D line that start_time is to be taken from: the one of the scan header,
\* the one of the file header for a scan without
ChosenLine(scan) == IF scan.sdate # None THEN scan.sdate ELSE file.fdate

\* C25: start_time is the conversion of the #D line of the scan header when
\* there is one, of the #D line of the file header only when there is none; a
\* line of neither layout raises ValueError and no value is put in its place
C25_StartTimeSource ==
    StartTimeCase
        => IF spec_date_to_iso8601(ChosenLine(ScanOf(OpPath))) = None
           THEN HeaderError(op.res)
           ELSE /\ op.res.cls = "SpecFileH5Dataset"
                /\ op.res.value
                       = Payload("date",
                             spec_date_to_iso8601(ChosenLine(ScanOf(OpPath))),
                             <<>>)

\* the start_time of a scan whose #D line is not the one of the file header
C25_Witness ==
    /\ StartTimeCase
    /\ ScanOf(OpPath).sdate = "Sat 2015/03/14 03:53:50"
    /\ file.fdate # ScanOf(OpPath).sdate
    /\ op.res.cls = "SpecFileH5Dataset"
    /\ op.res.value.s = "2015-03-14T03:53:50"

\* C26: no sequence of calls changes a list that the groups share: keys() of
\* a group returns the same names on every call, also after a caller changed a
\* list that an earlier keys() returned
C26_SharedListsKept == tables = StaticLists

\* C27: "key in group" is False for an absolute key whose path is neither the
\* path of the group nor below it by whole segments
C27_ForeignKeyNotContained ==
    (/\ op.type = "contains"
     /\ StartsWith(op.key, "/")
     /\ ~InSubtree(op.group.name, op.key))
        => op.res = Bool(FALSE)

\* the scan has no data line and no MCA spectrum
EmptyScan(scan) == scan.nlines = 0 /\ scan.nspectra = 0

\* C28: for a scan without data lines and without MCA spectra, keys() of its
\* instrument and measurement groups returns (positioners, or the labels, and
\* no mca_i) and "key in group" is False for a key that names an mca_<i>;
\* neither raises
C28_EmptyScan ==
    /\ (/\ KeysOfGroup
        /\ instrument_pattern(op.group.name) \/ measurement_group_pattern(op.group.name)
        /\ EmptyScan(ScanOf(op.group.name)))
           => op.keys = KeyList(None,
                  IF instrument_pattern(op.group.name)
                  THEN <<"positioners">>
                  ELSE ScanOf(op.group.name).labels)
    /\ (/\ op.type = "contains"
        /\ KeyInGroup
        /\ SegmentIndices(OpPath) # {}
        /\ ScanInFile(file, get_scan_key_in_name(OpPath))
        /\ EmptyScan(ScanOf(OpPath)))
           => op.res = Bool(FALSE)

\* path is the path of a motor of the motor names of its scan, or of a column
\* of the labels of its scan
MotorOrColumn(path) ==
    \E k \in SeqToSet(file.keys) :
        \/ \E m \in SeqToSet(file.scan[k].motor_names) :
               path = "/" \o k \o "/instrument/positioners/" \o m
        \/ \E l \in SeqToSet(file.scan[k].labels) :
               path = "/" \o k \o "/measurement/" \o l

\* C29: "key in group" is True for a motor of the motor names of the scan and
\* for a column of its labels, with or without a CTIME line and whatever the
\* name of the motor or of the column
C29_CtimeOnlyForTimes ==
    (op.type = "contains" /\ KeyInGroup /\ MotorOrColumn(OpPath))
        => op.res = Bool(TRUE)

RECURSIVE RankFrom(_, _)
\* the progress of the frames j..Len(st) of the stack st, the outermost frame
\* weighing most (a numeral of base 32, one digit for each of the 4 levels of
\* the tree)
RankFrom(st, j) ==
    IF j > Len(st) THEN 0
    ELSE (IF j = 1 THEN 2 * st[j].i ELSE 2 * st[j].i - 1) * 32 ^ (3 + j - Len(st))
         + RankFrom(st, j + 1)

\* how far the visit has come
Rank(st) == RankFrom(st, 1)

\* the stack of a visit is no deeper than the tree and no loop is past 15 turns
RankBounded ==
    /\ Len(stack) <= 4
    /\ \A j \in 1..Len(stack) : stack[j].i >= 1 /\ stack[j].i <= 15

\* every step of a visit that does not end it takes it further
VisitAdvances == [][(Visiting /\ Visiting') => Rank(stack') > Rank(stack)]_vars

\* C30: visit and visititems started on any group come to an end: the
\* recursion is no deeper than the tree, every step takes the visit further
\* through it, and the callback is called at most once for each member, so
\* that no member, link or other, is gone through twice
C30_VisitTerminates ==
    /\ [](InVisit => NoDuplicates(calls))
    /\ [](Visiting => RankBounded)
    /\ VisitAdvances

=============================================================================
